---- MODULE Spec2Model ----
(***************************************************************************)
(* Model of the Phonemizer API service (app/main.py).                      *)
(*                                                                         *)
(* Strings the code inspects character by character (text, ipa, phoneme   *)
(* symbols, completion content) are sequences of one-character strings.    *)
(* Messages the code only embeds (exception messages, fixed prefixes) are  *)
(* atomic strings, and an f-string is the sequence of its fragments.       *)
(*                                                                         *)
(* Every handler is an `async def` without an await, so it runs to its end *)
(* on the event loop before anything else does: one action per request.    *)
(* The action leaves the finished exchange in raw/request/resp and the     *)
(* external calls it made in engine_calls/upstream_calls; Deliver hands    *)
(* the response to the client and discards the exchange.                   *)
(***************************************************************************)
EXTENDS Integers, Sequences, FiniteSets, TLC

VARIABLES
    environ,         \* os.environ, restricted to the three AZURE_OPENAI_* keys
    ENGINE_NAME,     \* module global, read from the environment once at import
    pc,              \* "idle" | "responded"
    raw,             \* the request as received: route and JSON body fields
    request,         \* the validated request object the handler received
    resp,            \* the HTTP response: status, body
    engine_calls,    \* calls of phonemize_espeak made for this request
    upstream_calls   \* calls of chat.completions.create made for this request

vars == <<environ, ENGINE_NAME, pc, raw, request, resp, engine_calls, upstream_calls>>

----------------------------------------------------------------------------
(* Bounds of the model *)

MaxTextLen == 3
MaxIpaLen == 3
MaxGroups == 2
MaxSymbols == 2

(* Alphabets the inputs are drawn from *)
TextChars == {" ", "h"}
IpaChars == {" ", "/", "k"}
SymbolSet == {<<"h">>, <<"@", "U">>}
LanguageInputs == {"en-us", "invalid-lang", "xx-unsupported"}
EngineMessages == {"language not found", "espeak fault"}
UpstreamMessages == {"Request timed out.", "quota exceeded"}
ContentInputs == {<<"c", "a", "t">>, <<" ", "c", "a", "t", " ">>}

Strings(chars, n) == UNION {[1..k -> chars] : k \in 0..n}

----------------------------------------------------------------------------
(* Python values and string methods *)

NoneVal == "<None>"
EnvKeys == {"AZURE_OPENAI_ENDPOINT", "AZURE_OPENAI_API_KEY", "AZURE_OPENAI_ENGINE"}
EnvValues == {NoneVal, "", "x"}

(* os.getenv(key) and os.getenv(key, default) *)
getenv(e, key) == e[key]
getenv_default(e, key, default) == IF e[key] = NoneVal THEN default ELSE e[key]

(* bool(v) of an optional string *)
Truthy(v) == v # NoneVal /\ v # ""

(* characters str.strip() removes by default *)
Whitespace == {" ", "\t", "\n", "\r"}

RECURSIVE LStrip(_, _)
LStrip(s, cs) == IF s # <<>> /\ Head(s) \in cs THEN LStrip(Tail(s), cs) ELSE s

RECURSIVE RStrip(_, _)
RStrip(s, cs) ==
    IF s # <<>> /\ s[Len(s)] \in cs THEN RStrip(SubSeq(s, 1, Len(s) - 1), cs) ELSE s

(* s.strip() and s.strip(chars) *)
StrStrip(s, cs) == RStrip(LStrip(s, cs), cs)

(* sep.join(parts) *)
RECURSIVE StrJoin(_, _)
StrJoin(sep, parts) ==
    IF parts = <<>> THEN <<>>
    ELSE IF Len(parts) = 1 THEN parts[1]
    ELSE parts[1] \o sep \o StrJoin(sep, Tail(parts))

----------------------------------------------------------------------------
(* Language registry *)

(* the keys of the SUPPORTED_LANGUAGES dict, in insertion order *)
SUPPORTED_LANGUAGES ==
    <<"ar", "cs", "cs-cz", "de", "de-de", "en", "en-us", "es", "es-es", "fa",
      "fr", "fr-fr", "it", "it-it", "lb", "nl", "ru", "ru-ru", "sv", "sv-se", "sw">>

(* v in SUPPORTED_LANGUAGES *)
InRegistry(v) == \E i \in 1..Len(SUPPORTED_LANGUAGES) : SUPPORTED_LANGUAGES[i] = v

----------------------------------------------------------------------------
(* Results of a call: a returned value or a raised exception *)

NoExc == [status_code |-> 0, detail |-> <<>>]
NoValue == [kind |-> "none"]

HTTPException(status_code, detail) == [status_code |-> status_code, detail |-> detail]

Return(v) == [raised |-> FALSE, exc |-> NoExc, value |-> v]
Raise(e) == [raised |-> TRUE, exc |-> e, value |-> NoValue]

(* str(e) of an HTTPException: "<status_code>: <detail>" *)
StrHTTPException(e) == <<ToString(e.status_code), ": ">> \o e.detail

----------------------------------------------------------------------------
(* Schema validation (pydantic validators) *)

Valid(v) == [ok |-> TRUE, value |-> v, msg |-> <<>>]
Invalid(v, msg) == [ok |-> FALSE, value |-> v, msg |-> msg]

(* text_not_empty returning the value as received instead of v.strip() *)
text_not_empty_unstripped(v) ==
    IF StrStrip(v, Whitespace) = <<>>
    THEN Invalid(v, <<"Text cannot be empty">>)
    ELSE Valid(v)

(* PhonemeRequest.text_not_empty *)
text_not_empty(v) ==
    IF StrStrip(v, Whitespace) = <<>>
    THEN Invalid(v, <<"Text cannot be empty">>)
    ELSE Valid(StrStrip(v, Whitespace))

(* language_must_be_supported without the registry lookup *)
language_unchecked(v) == Valid(v)

(* PhonemeRequest.language_must_be_supported *)
language_must_be_supported(v) ==
    IF ~InRegistry(v)
    THEN Invalid(v, <<"Language \"", v, "\" not supported. Available languages: ">>
                    \o StrJoin(<<", ">>, [i \in 1..Len(SUPPORTED_LANGUAGES) |->
                                            <<SUPPORTED_LANGUAGES[i]>>]))
    ELSE Valid(v)

(* IPAToTextRequest.clean_ipa *)
clean_ipa(v) ==
    LET cleaned == StrStrip(StrStrip(v, Whitespace), {"/"})
    IN  IF cleaned = <<>>
        THEN Invalid(v, <<"IPA text cannot be empty">>)
        ELSE Valid(cleaned)

NoRequest == [kind |-> "none"]

ValidationError(field, r) == [loc |-> <<"body", field>>, msg |-> r.msg]

(* Building a PhonemeRequest from the body: every field's validator runs and the
   errors of all fields are collected in field order. *)
PhonemeRequest(text, language) ==
    LET t == text_not_empty(text)
        l == language_must_be_supported(language)
    IN  [ok |-> t.ok /\ l.ok,
         errors |-> (IF t.ok THEN <<>> ELSE <<ValidationError("text", t)>>)
                    \o (IF l.ok THEN <<>> ELSE <<ValidationError("language", l)>>),
         value |-> [kind |-> "PhonemeRequest", text |-> t.value, language |-> l.value]]

(* Building an IPAToTextRequest from the body *)
IPAToTextRequest(ipa) ==
    LET c == clean_ipa(ipa)
    IN  [ok |-> c.ok,
         errors |-> IF c.ok THEN <<>> ELSE <<ValidationError("ipa", c)>>,
         value |-> [kind |-> "IPAToTextRequest", ipa |-> c.value]]

----------------------------------------------------------------------------
(* Responses *)

NoResp == [status |-> 0, body |-> [kind |-> "none"]]

(* The framework's answer to a handler's result: the returned model with 200, or
   the raised HTTPException's status with {"detail": ...}. *)
HandlerResponse(r) ==
    IF r.raised
    THEN [status |-> r.exc.status_code, body |-> [detail |-> r.exc.detail]]
    ELSE [status |-> 200, body |-> r.value]

(* The framework's answer to a body that fails validation *)
UnprocessableEntity(errors) == [status |-> 422, body |-> [detail |-> errors]]

PhonemeResponse(ipa, sampa, espeak_ascii) ==
    [ipa |-> ipa, sampa |-> sampa, espeak_ascii |-> espeak_ascii,
     note |-> "Format conversion between IPA and SAMPA is pending implementation"]

IPAToTextResponse(text, confidence) == [text |-> text, confidence |-> confidence]

----------------------------------------------------------------------------
(* The phonemization engine: every outcome phonemize_espeak can have *)

RECURSIVE SymbolCount(_)
SymbolCount(phonemes) ==
    IF phonemes = <<>> THEN 0 ELSE Len(Head(phonemes)) + SymbolCount(Tail(phonemes))

PhonemeGroups == Strings(SymbolSet, MaxSymbols)
PhonemeLists ==
    {p \in Strings(PhonemeGroups, MaxGroups) : SymbolCount(p) <= MaxSymbols}

EngineOutcomes ==
    {[ok |-> TRUE, phonemes |-> p, msg |-> ""] : p \in PhonemeLists}
    \cup {[ok |-> FALSE, phonemes |-> <<>>, msg |-> m] : m \in EngineMessages}

(* the groups joined by "" instead of " " *)
espeak_join_no_space(phonemes) ==
    StrJoin(<<>>, [i \in 1..Len(phonemes) |-> StrJoin(<<>>, phonemes[i])])

(* " ".join("".join(p) for p in phonemes) *)
espeak_join(phonemes) ==
    StrJoin(<<" ">>, [i \in 1..Len(phonemes) |-> StrJoin(<<>>, phonemes[i])])

(* the except clause reporting the engine failure as a validation failure *)
phonemize_text_except_422(msg) ==
    Raise(HTTPException(422, <<"Error during phonemization: ", msg>>))

(* the except clause of phonemize_text *)
phonemize_text_except(msg) ==
    Raise(HTTPException(500, <<"Error during phonemization: ", msg>>))

(* POST /phonemize handler: its result and the engine calls it made *)
phonemize_text(r, outcome) ==
    [calls |-> <<[text |-> r.text, language |-> r.language, outcome |-> outcome]>>,
     result |-> IF outcome.ok
                THEN LET espeak_ascii == espeak_join(outcome.phonemes)
                     IN  Return(PhonemeResponse(espeak_ascii, espeak_ascii, espeak_ascii))
                ELSE phonemize_text_except(outcome.msg)]

----------------------------------------------------------------------------
(* The completion service: every outcome chat.completions.create can have.
   "ok": a first choice with text content and a finish reason;
   "none_content": a first choice whose message.content is None, so .strip()
   raises AttributeError; "api_error": the call raises an openai.APIError
   (timeout, auth rejection, quota); "error": it raises another Exception. *)

UpstreamOutcomes ==
    {[kind |-> "ok", content |-> c, finish_reason |-> f, msg |-> ""] :
        c \in ContentInputs, f \in {"stop", "length"}}
    \cup {[kind |-> "none_content", content |-> <<>>, finish_reason |-> "content_filter",
           msg |-> "'NoneType' object has no attribute 'strip'"]}
    \cup {[kind |-> k, content |-> <<>>, finish_reason |-> "", msg |-> m] :
        k \in {"api_error", "error"}, m \in UpstreamMessages}

NotConfiguredDetail ==
    <<"Azure OpenAI not configured. Please set AZURE_OPENAI_ENDPOINT, AZURE_OPENAI_API_KEY, and AZURE_OPENAI_ENGINE environment variables.">>

(* all([endpoint, api_key, ENGINE_NAME]) *)
all_configured(endpoint, api_key, engine) ==
    Truthy(endpoint) /\ Truthy(api_key) /\ Truthy(engine)

(* a create that is called a second time when the first call raises *)
chat_completions_create_retrying(api_key, endpoint, model, ipa, outcome) ==
    LET call == [api_key |-> api_key, azure_endpoint |-> endpoint, model |-> model,
                 user_content |-> <<"IPA: ">> \o ipa, temperature |-> 0,
                 max_tokens |-> 50, outcome |-> outcome]
    IN  [calls |-> IF outcome.kind \in {"api_error", "error"}
                   THEN <<call, call>> ELSE <<call>>,
         outcome |-> outcome]

(* client.chat.completions.create(model=ENGINE_NAME, messages=messages, ...):
   the calls made and what the one call gave *)
chat_completions_create(api_key, endpoint, model, ipa, outcome) ==
    [calls |-> <<[api_key |-> api_key, azure_endpoint |-> endpoint, model |-> model,
                  user_content |-> <<"IPA: ">> \o ipa, temperature |-> 0,
                  max_tokens |-> 50, outcome |-> outcome]>>,
     outcome |-> outcome]

(* the inner try of ipa_to_text, given what the call gave *)
ipa_to_text_inner(outcome) ==
    CASE outcome.kind = "ok" ->
            Return(IPAToTextResponse(StrStrip(outcome.content, Whitespace),
                                     IF outcome.finish_reason = "stop" THEN 1 ELSE 0))
      [] outcome.kind = "api_error" ->
            Raise(HTTPException(500, <<"Azure OpenAI API error: ", outcome.msg>>))
      [] OTHER ->
            Raise(HTTPException(500, <<"Error during API call: ", outcome.msg>>))

(* the outer `except Exception` of ipa_to_text: it catches whatever the body
   raised, the HTTPExceptions of the body included *)
ipa_to_text_except(r) ==
    IF r.raised
    THEN Raise(HTTPException(500, <<"Error converting IPA to text: ">>
                                  \o StrHTTPException(r.exc)))
    ELSE r

(* POST /ipa-to-text handler: its result and the completion calls it made *)
ipa_to_text(r, e, engine, outcome) ==
    LET endpoint == getenv(e, "AZURE_OPENAI_ENDPOINT")
        api_key == getenv(e, "AZURE_OPENAI_API_KEY")
    IN  IF ~all_configured(endpoint, api_key, engine)
        THEN [calls |-> <<>>,
              result |-> ipa_to_text_except(Raise(HTTPException(503, NotConfiguredDetail)))]
        ELSE LET c == chat_completions_create(api_key, endpoint, engine, r.ipa, outcome)
             IN  [calls |-> c.calls,
                  result |-> ipa_to_text_except(ipa_to_text_inner(c.outcome))]

----------------------------------------------------------------------------
(* GET /debug/config *)

(* s.replace(old, new) for s and old of at most one character *)
StrReplace(s, old, new) ==
    IF old = "" THEN (IF s = "" THEN <<new>> ELSE <<new, s, new>>)
    ELSE IF s = old THEN <<new>>
    ELSE IF s = "" THEN <<>> ELSE <<s>>

debug_config(e) ==
    [endpoint_set |-> Truthy(getenv(e, "AZURE_OPENAI_ENDPOINT")),
     api_key_set |-> Truthy(getenv(e, "AZURE_OPENAI_API_KEY")),
     engine_set |-> Truthy(getenv(e, "AZURE_OPENAI_ENGINE")),
     endpoint |-> StrReplace(getenv_default(e, "AZURE_OPENAI_ENDPOINT", ""),
                             getenv_default(e, "AZURE_OPENAI_API_KEY", ""), "REDACTED"),
     engine |-> getenv_default(e, "AZURE_OPENAI_ENGINE", "")]

----------------------------------------------------------------------------
(* The state machine *)

NoRaw == [route |-> "", text |-> <<>>, language |-> "", ipa |-> <<>>]

Init ==
    /\ environ \in [EnvKeys -> EnvValues]
    /\ ENGINE_NAME = getenv_default(environ, "AZURE_OPENAI_ENGINE", "")
    /\ pc = "idle"
    /\ raw = NoRaw
    /\ request = NoRequest
    /\ resp = NoResp
    /\ engine_calls = <<>>
    /\ upstream_calls = <<>>

(* POST /phonemize with body {text, language}; outcome is what the engine does
   if it is called *)
Phonemize(text, language, outcome) ==
    /\ pc = "idle"
    /\ pc' = "responded"
    /\ raw' = [NoRaw EXCEPT !.route = "/phonemize", !.text = text, !.language = language]
    /\ LET v == PhonemeRequest(text, language)
       IN  IF ~v.ok
           THEN /\ request' = NoRequest
                /\ resp' = UnprocessableEntity(v.errors)
                /\ engine_calls' = <<>>
           ELSE LET h == phonemize_text(v.value, outcome)
                IN  /\ request' = v.value
                    /\ resp' = HandlerResponse(h.result)
                    /\ engine_calls' = h.calls
    /\ upstream_calls' = <<>>
    /\ UNCHANGED <<environ, ENGINE_NAME>>

(* POST /ipa-to-text with body {ipa}; outcome is what the completion service
   does if it is called *)
IpaToText(ipa, outcome) ==
    /\ pc = "idle"
    /\ pc' = "responded"
    /\ raw' = [NoRaw EXCEPT !.route = "/ipa-to-text", !.ipa = ipa]
    /\ LET v == IPAToTextRequest(ipa)
       IN  IF ~v.ok
           THEN /\ request' = NoRequest
                /\ resp' = UnprocessableEntity(v.errors)
                /\ upstream_calls' = <<>>
           ELSE LET h == ipa_to_text(v.value, environ, ENGINE_NAME, outcome)
                IN  /\ request' = v.value
                    /\ resp' = HandlerResponse(h.result)
                    /\ upstream_calls' = h.calls
    /\ engine_calls' = <<>>
    /\ UNCHANGED <<environ, ENGINE_NAME>>

(* a health check that reports the upstream configuration *)
health_check_probing ==
    /\ pc = "idle"
    /\ pc' = "responded"
    /\ raw' = [NoRaw EXCEPT !.route = "/health"]
    /\ request' = NoRequest
    /\ resp' = IF all_configured(getenv(environ, "AZURE_OPENAI_ENDPOINT"),
                                 getenv(environ, "AZURE_OPENAI_API_KEY"), ENGINE_NAME)
               THEN [status |-> 200, body |-> [status |-> "healthy"]]
               ELSE [status |-> 503, body |-> [status |-> "unhealthy"]]
    /\ engine_calls' = <<>>
    /\ upstream_calls' = <<>>
    /\ UNCHANGED <<environ, ENGINE_NAME>>

(* GET /health *)
health_check ==
    /\ pc = "idle"
    /\ pc' = "responded"
    /\ raw' = [NoRaw EXCEPT !.route = "/health"]
    /\ request' = NoRequest
    /\ resp' = [status |-> 200, body |-> [status |-> "healthy"]]
    /\ engine_calls' = <<>>
    /\ upstream_calls' = <<>>
    /\ UNCHANGED <<environ, ENGINE_NAME>>

(* GET /debug/config *)
DebugConfig ==
    /\ pc = "idle"
    /\ pc' = "responded"
    /\ raw' = [NoRaw EXCEPT !.route = "/debug/config"]
    /\ request' = NoRequest
    /\ resp' = [status |-> 200, body |-> debug_config(environ)]
    /\ engine_calls' = <<>>
    /\ upstream_calls' = <<>>
    /\ UNCHANGED <<environ, ENGINE_NAME>>

(* The process environment changes between two requests (os.environ is
   re-read by each request; ENGINE_NAME is not). *)
SetEnv(key, value) ==
    /\ pc = "idle"
    /\ environ[key] # value
    /\ environ' = [environ EXCEPT ![key] = value]
    /\ UNCHANGED <<ENGINE_NAME, pc, raw, request, resp, engine_calls, upstream_calls>>

(* The response is sent; nothing of the exchange is kept. *)
Deliver ==
    /\ pc = "responded"
    /\ pc' = "idle"
    /\ raw' = NoRaw
    /\ request' = NoRequest
    /\ resp' = NoResp
    /\ engine_calls' = <<>>
    /\ upstream_calls' = <<>>
    /\ UNCHANGED <<environ, ENGINE_NAME>>

PhonemizeStep ==
    /\ pc = "idle"
    /\ \E text \in Strings(TextChars, MaxTextLen), language \in LanguageInputs,
          outcome \in EngineOutcomes : Phonemize(text, language, outcome)

IpaToTextStep ==
    /\ pc = "idle"
    /\ \E ipa \in Strings(IpaChars, MaxIpaLen), outcome \in UpstreamOutcomes :
          IpaToText(ipa, outcome)

SetEnvStep ==
    /\ pc = "idle"
    /\ \E key \in EnvKeys, value \in EnvValues : SetEnv(key, value)

Next ==
    \/ PhonemizeStep
    \/ IpaToTextStep
    \/ health_check
    \/ DebugConfig
    \/ SetEnvStep
    \/ Deliver

Spec == Init /\ [][Next]_vars

----------------------------------------------------------------------------
(* Vocabulary of the properties *)

RegistryCodes == {SUPPORTED_LANGUAGES[i] : i \in 1..Len(SUPPORTED_LANGUAGES)}

IsBlank(s) == \A i \in 1..Len(s) : s[i] \in Whitespace

(* s neither starts nor ends with a character of cs *)
NoEdge(s, cs) == s = <<>> \/ (s[1] \notin cs /\ s[Len(s)] \notin cs)

(* t is s without its leading and trailing whitespace *)
IsTrimOf(t, s) ==
    /\ NoEdge(t, Whitespace)
    /\ \E i \in 0..Len(s) :
        /\ i + Len(t) <= Len(s)
        /\ SubSeq(s, i + 1, i + Len(t)) = t
        /\ \A k \in 1..Len(s) : (k <= i \/ k > i + Len(t)) => s[k] \in Whitespace

(* the response reports a validation error on the given body field *)
ErrorOn(field) ==
    /\ resp.status = 422
    /\ \E i \in 1..Len(resp.body.detail) : resp.body.detail[i].loc = <<"body", field>>

(* the error detail contains the message *)
Embeds(msg) == \E i \in 1..Len(resp.body.detail) : resp.body.detail[i] = msg

Answered(route) == pc = "responded" /\ raw.route = route

RECURSIVE Concat(_)
Concat(ss) == IF ss = <<>> THEN <<>> ELSE Head(ss) \o Concat(Tail(ss))

(* where group i starts in the joined string (0-based), one separator per
   earlier group *)
RECURSIVE GroupStart(_, _)
GroupStart(G, i) ==
    IF i = 1 THEN 0 ELSE GroupStart(G, i - 1) + Len(Concat(G[i - 1])) + 1

(* out is the groups of G, each written without separator, in order, with
   exactly one space between neighbours and nothing else *)
IsJoined(out, G) ==
    /\ Len(out) = IF G = <<>> THEN 0 ELSE GroupStart(G, Len(G)) + Len(Concat(G[Len(G)]))
    /\ \A i \in 1..Len(G) :
        /\ SubSeq(out, GroupStart(G, i) + 1, GroupStart(G, i) + Len(Concat(G[i])))
              = Concat(G[i])
        /\ i < Len(G) => out[GroupStart(G, i) + Len(Concat(G[i])) + 1] = " "

(* the upstream configuration as /ipa-to-text holds it *)
Configured ==
    /\ Truthy(environ["AZURE_OPENAI_ENDPOINT"])
    /\ Truthy(environ["AZURE_OPENAI_API_KEY"])
    /\ Truthy(ENGINE_NAME)

----------------------------------------------------------------------------
(* C1: a validated /ipa-to-text request with the endpoint, the API key or the
   engine name missing or empty is answered 503 with a detail naming the
   configuration variables, a status other than the 500 of a failed call. *)
C1_Unconfigured503 ==
    (Answered("/ipa-to-text") /\ request.kind = "IPAToTextRequest" /\ ~Configured)
        => /\ resp.status = 503
           /\ resp.body.detail = NotConfiguredDetail
           /\ resp.status # 500

(* C2: a /phonemize request whose language is not a key of SUPPORTED_LANGUAGES
   is rejected by validation, whatever its text, and phonemize_espeak is not
   invoked for it. *)
C2_UnsupportedLanguageRejected ==
    (Answered("/phonemize") /\ raw.language \notin RegistryCodes)
        => /\ ErrorOn("language")
           /\ request = NoRequest
           /\ engine_calls = <<>>

C2_Witness ==
    /\ Answered("/phonemize")
    /\ raw.language = "xx-unsupported"
    /\ raw.text = <<"h">>
    /\ resp.status = 422
    /\ engine_calls = <<>>

(* C3: a /phonemize request with non-empty text and a language outside the
   supported set is answered with status 500. *)
C3_InvalidLanguage500 ==
    (Answered("/phonemize") /\ ~IsBlank(raw.text) /\ raw.language \notin RegistryCodes)
        => resp.status = 500

(* C4: empty or all-whitespace text is rejected with an error on the text
   field, for every language, without an engine call; any other text reaches
   the engine with its leading and trailing whitespace removed. *)
C4_TextTrimmedOrRejected ==
    Answered("/phonemize") =>
        /\ IsBlank(raw.text) => (ErrorOn("text") /\ engine_calls = <<>>)
        /\ ~IsBlank(raw.text) =>
            /\ \A i \in 1..Len(engine_calls) : IsTrimOf(engine_calls[i].text, raw.text)
            /\ raw.language \in RegistryCodes => Len(engine_calls) = 1

C4_Witness ==
    /\ Answered("/phonemize")
    /\ raw.text = <<" ", "h", " ">>
    /\ Len(engine_calls) = 1
    /\ engine_calls[1].text = <<"h">>

(* C5: the ipa validator normalizes: an accepted value is stored non-empty,
   without leading or trailing whitespace or '/', so cleaning it again returns
   it unchanged; an input that is empty once slashes and whitespace are
   removed is rejected; "/kaet/", "kaet" and " kaet " all clean to "kaet". *)
C5_CleanIpaNormalizes ==
    /\ Answered("/ipa-to-text") =>
        /\ request.kind = "IPAToTextRequest" =>
            /\ request.ipa # <<>>
            /\ NoEdge(request.ipa, Whitespace)
            /\ NoEdge(request.ipa, {"/"})
            /\ clean_ipa(request.ipa) = Valid(request.ipa)
        /\ (\A i \in 1..Len(raw.ipa) : raw.ipa[i] \in Whitespace \cup {"/"})
              => ErrorOn("ipa")
    /\ clean_ipa(<<"/", "k", "ae", "t", "/">>).value = <<"k", "ae", "t">>
    /\ clean_ipa(<<"k", "ae", "t">>).value = <<"k", "ae", "t">>
    /\ clean_ipa(<<" ", "k", "ae", "t", " ">>).value = <<"k", "ae", "t">>

(* C6: when the engine returns phoneme groups G for a valid request, the
   answer is 200 with the fields ipa, sampa, espeak_ascii and note, where
   espeak_ascii is the groups of G, each concatenated without separator,
   joined in order by exactly one space, and ipa = sampa = espeak_ascii. *)
C6_JoinedPhonemes ==
    (Answered("/phonemize") /\ ~IsBlank(raw.text) /\ raw.language \in RegistryCodes)
        => /\ Len(engine_calls) = 1
           /\ engine_calls[1].outcome.ok =>
                /\ resp.status = 200
                /\ DOMAIN resp.body = {"ipa", "sampa", "espeak_ascii", "note"}
                /\ IsJoined(resp.body.espeak_ascii, engine_calls[1].outcome.phonemes)
                /\ resp.body.ipa = resp.body.espeak_ascii
                /\ resp.body.sampa = resp.body.espeak_ascii

C6_Witness ==
    /\ Answered("/phonemize")
    /\ Len(engine_calls) = 1
    /\ engine_calls[1].outcome.ok
    /\ engine_calls[1].outcome.phonemes = <<<<<<"h">>>>, <<<<"@", "U">>>>>>
    /\ resp.status = 200
    /\ resp.body.espeak_ascii = <<"h", " ", "@", "U">>

(* C7: when the engine fails on a request that passed validation the answer
   is a 500 whose detail embeds the engine's message, never a 422 or a 200;
   and /phonemize answers 500 only to requests that passed validation. *)
C7_EngineFailure500 ==
    Answered("/phonemize") =>
        /\ (request.kind = "PhonemeRequest" /\ Len(engine_calls) = 1
                /\ ~engine_calls[1].outcome.ok)
              => (resp.status = 500 /\ Embeds(engine_calls[1].outcome.msg))
        /\ resp.status = 500 =>
              /\ request.kind = "PhonemeRequest"
              /\ ~IsBlank(raw.text)
              /\ raw.language \in RegistryCodes

C7_Witness ==
    /\ Answered("/phonemize")
    /\ request.kind = "PhonemeRequest"
    /\ Len(engine_calls) = 1
    /\ engine_calls[1].outcome.msg = "espeak fault"
    /\ resp.status = 500

(* C8: whatever the configuration and whatever came before, GET /health is
   answered 200 with exactly {"status": "healthy"} and without an external
   call. *)
C8_HealthAlwaysHealthy ==
    Answered("/health") =>
        /\ resp.status = 200
        /\ resp.body = [status |-> "healthy"]
        /\ engine_calls = <<>>
        /\ upstream_calls = <<>>

C8_Witness ==
    /\ Answered("/health")
    /\ ~Configured
    /\ environ["AZURE_OPENAI_ENGINE"] = "x"
    /\ ENGINE_NAME = ""
    /\ resp.status = 200

(* C9: a /ipa-to-text request makes at most one chat-completion call: none
   when the ipa field fails validation or the upstream is not configured,
   exactly one otherwise; when that call fails there is no second call and the
   answer is a 5xx whose detail embeds the upstream message. *)
C9_AtMostOneCompletionCall ==
    Answered("/ipa-to-text") =>
        /\ Len(upstream_calls) <= 1
        /\ (request.kind # "IPAToTextRequest" \/ ~Configured) => Len(upstream_calls) = 0
        /\ (request.kind = "IPAToTextRequest" /\ Configured) => Len(upstream_calls) = 1
        /\ \A i \in 1..Len(upstream_calls) :
              upstream_calls[i].outcome.kind \in {"api_error", "error"}
                 => /\ Len(upstream_calls) = 1
                    /\ resp.status \in 500..599
                    /\ Embeds(upstream_calls[i].outcome.msg)

C9_Witness ==
    /\ Answered("/ipa-to-text")
    /\ Len(upstream_calls) = 1
    /\ upstream_calls[1].outcome.kind = "api_error"
    /\ upstream_calls[1].outcome.msg = "quota exceeded"
    /\ resp.status = 500

(* C10: in every state, also after the environment changed since startup,
   /ipa-to-text proceeds to the completion call exactly when /debug/config
   reports endpoint_set, api_key_set and engine_set all true. *)
C10_ConfigViewsAgree ==
    (Answered("/ipa-to-text") /\ request.kind = "IPAToTextRequest")
        => (Len(upstream_calls) = 1
              <=> /\ debug_config(environ).endpoint_set
                  /\ debug_config(environ).api_key_set
                  /\ debug_config(environ).engine_set)

====
